---- MODULE Spec2Model ----
(***************************************************************************)
(* A model of vgcfit.py: a .vgc container is split into its 8 streams,     *)
(* every ordering of the streams is tried to find the one that needs the   *)
(* fewest 16K ROM banks, and one image per bank plus a table of contents   *)
(* is written.                                                             *)
(*                                                                         *)
(* The input file is a length and the bytes that are not zero; a stream's  *)
(* data is the slice [lo, hi) of the file it was cut from.                 *)
(***************************************************************************)
EXTENDS Integers, Sequences, FiniteSets, TLC

\* ---------------------------------------------------------------- constants
NumStreams == 8
Capacity == 16384
FirstStart == 7
LengthExtra == 4
BaseAddr == 32768
InitBestNumRoms == 16
InitRomSize == 16385
MinFileLen == 4

\* The longest --banks argument tried.
MaxBankLen == 2

\* ---------------------------------------------------------------- helpers
Max(S) == CHOOSE x \in S : \A y \in S : y <= x

Min2(a, b) == IF a < b THEN a ELSE b

\* ---------------------------------------------------------------- the file
\* data[i] of the list load_file returns; i is always >= 7 or a constant, so a
\* negative index never occurs.  Reading at or past the end raises IndexError.
InFile(d, i) == i < d.len

Byte(d, i) == IF i \in DOMAIN d.nz THEN d.nz[i] ELSE 0

\* The header of a file: 'V','G','C', the flags byte.
GoodHeader == <<86, 71, 67, 0>>
BadMagicHeader == <<86, 71, 68, 0>>
HuffmanHeader == <<86, 71, 67, 128>>

\* The offsets at which the 8 length fields of a well-formed file sit, given
\* the values ns of the length fields.
RECURSIVE LayoutStart(_, _)
LayoutStart(ns, i) ==
    IF i = 1 THEN FirstStart ELSE LayoutStart(ns, i - 1) + ns[i - 1] + LengthExtra

\* A file of len bytes with header hdr whose 8 length fields hold ns, every
\* other byte 0.
MakeFile(hdr, ns, len) ==
    LET hdrAt == {i \in 0..3 : i < len}
        loAt == {LayoutStart(ns, i) : i \in 1..NumStreams}
        field(o) == CHOOSE i \in 1..NumStreams : LayoutStart(ns, i) \in {o, o - 1}
        at == {o \in hdrAt \cup loAt \cup {o + 1 : o \in loAt} : o < len}
    IN [len |-> len,
        nz |-> [o \in at |->
                   IF o < 4 THEN hdr[o + 1]
                   ELSE IF o = LayoutStart(ns, field(o)) THEN ns[field(o)] % 256
                   ELSE ns[field(o)] \div 256]]

FullLen(ns) == LayoutStart(ns, NumStreams) + ns[NumStreams] + LengthExtra

\* ---------------------------------------------------------------- ensure_ok
\* The message ensure_ok dies with, or "ok".
ensure_ok(d) ==
    IF d.len < MinFileLen THEN "input file too small"
    ELSE IF Byte(d, 0) # 86 \/ Byte(d, 1) # 71 \/ Byte(d, 2) # 67
        THEN "file doesn't have VGC header"
    ELSE IF (Byte(d, 3) \div 128) % 2 = 1 THEN "Huffman compression not supported"
    ELSE "ok"

\* ---------------------------------------------------------------- find_vgc_streams
\* The loop of find_vgc_streams after k rounds: [ok, starts, index]; ok turns
\* FALSE when data[index+0] or data[index+1] is past the end (IndexError).
RECURSIVE ScanStarts(_, _)
ScanStarts(d, k) ==
    IF k = 0 THEN [ok |-> TRUE, starts |-> <<>>, index |-> FirstStart]
    ELSE LET prev == ScanStarts(d, k - 1)
         IN IF ~prev.ok THEN prev
            ELSE IF ~InFile(d, prev.index) \/ ~InFile(d, prev.index + 1)
                THEN [ok |-> FALSE, starts |-> Append(prev.starts, prev.index),
                      index |-> prev.index]
            ELSE LET n == Byte(d, prev.index) + 256 * Byte(d, prev.index + 1)
                 IN [ok |-> TRUE, starts |-> Append(prev.starts, prev.index),
                     index |-> prev.index + n + LengthExtra]

\* data[a:b] for 0 <= a <= b: a list slice stops at the end of the list.
Slice(d, a, b) == [lo |-> Min2(a, d.len), hi |-> Min2(b, d.len)]

DataLen(x) == x.hi - x.lo

find_vgc_streams(d) ==
    LET scan == ScanStarts(d, NumStreams)
        starts == Append(scan.starts, scan.index)
    IN [i \in 1..NumStreams |->
           [index |-> i - 1, data |-> Slice(d, starts[i], starts[i + 1])]]

\* ---------------------------------------------------------------- find_order
\* The bank count of one ordering: the inner loop of the search.
RECURSIVE CountFrom(_, _, _, _)
CountFrom(order, k, size, num_roms) ==
    IF k > Len(order) THEN num_roms
    ELSE LET over == size + DataLen(order[k].data) > Capacity
         IN CountFrom(order, k + 1,
                      (IF over THEN 0 ELSE size) + DataLen(order[k].data),
                      IF over THEN num_roms + 1 ELSE num_roms)

\* The count with rom_size+=len(stream.data) moved into an else branch: the
\* stream that opens a ROM is not counted into it.
RECURSIVE CountFromSkippingOpener(_, _, _, _)
CountFromSkippingOpener(order, k, size, num_roms) ==
    IF k > Len(order) THEN num_roms
    ELSE LET over == size + DataLen(order[k].data) > Capacity
         IN CountFromSkippingOpener(order, k + 1,
                                    IF over THEN 0 ELSE size + DataLen(order[k].data),
                                    IF over THEN num_roms + 1 ELSE num_roms)

CountRomsSkippingOpener(order) == CountFromSkippingOpener(order, 1, 0, 1)

\* The count with num_roms starting at 0.
CountRomsFromZero(order) == CountFrom(order, 1, 0, 0)

CountRoms(order) == CountFrom(order, 1, 0, 1)

\* The test with <= : an ordering that ties replaces the one kept.
BetterOrEqual(num_roms, best) == num_roms <= best

\* if num_roms<best_num_roms
Better(num_roms, best) == num_roms < best

\* The test with the stream's length left out of the sum.
RomOverflowsIgnoringStream(size, stream) == size > Capacity

\* The test of the second loop: the stream opens a new ROM.
RomOverflows(size, stream) == size + DataLen(stream.data) > Capacity

\* itertools.permutations yields the orderings in lexicographic order of the
\* positions in its argument; FirstPerm and NextPerm walk them, <<>> at the end.
FirstPerm == [k \in 1..NumStreams |-> k]

NextPerm(p) ==
    LET n == Len(p)
        I == {i \in 1..(n - 1) : p[i] < p[i + 1]}
    IN IF I = {} THEN <<>>
       ELSE LET i == Max(I)
                j == Max({k \in (i + 1)..n : p[k] > p[i]})
                q == [k \in 1..n |-> IF k = i THEN p[j] ELSE IF k = j THEN p[i] ELSE p[k]]
            IN [k \in 1..n |-> IF k <= i THEN q[k] ELSE q[n + i + 1 - k]]

OrderOf(ss, p) == [k \in 1..Len(p) |-> ss[p[k]]]

\* ---------------------------------------------------------------- handle_options
isxdigit(c) ==
    c \in {"0", "1", "2", "3", "4", "5", "6", "7", "8", "9",
           "A", "B", "C", "D", "E", "F", "a", "b", "c", "d", "e", "f"}

\* int(bank,16) of one hex digit.
HexValue(c) ==
    CASE c = "0" -> 0 [] c = "1" -> 1 [] c = "2" -> 2 [] c = "3" -> 3
      [] c = "4" -> 4 [] c = "5" -> 5 [] c = "6" -> 6 [] c = "7" -> 7
      [] c = "8" -> 8 [] c = "9" -> 9
      [] c \in {"a", "A"} -> 10 [] c \in {"b", "B"} -> 11 [] c \in {"c", "C"} -> 12
      [] c \in {"d", "D"} -> 13 [] c \in {"e", "E"} -> 14 [] c \in {"f", "F"} -> 15

\* Python's == between the digit read from the argument (a str) and an element
\* of the list being built: values of different types are never equal.
PyStr(c) == [type |-> "str", str |-> c, int |-> 0]

PyInt(n) == [type |-> "int", str |-> "", int |-> n]

PyEq(a, b) == a.type = b.type /\ a.str = b.str /\ a.int = b.int

\* bank in banks
PyIn(x, xs) == \E k \in 1..Len(xs) : PyEq(x, xs[k])

NoFatal == [text |-> "", args |-> <<>>]

\* The loop of handle_options over the first k characters of the argument:
\* [fatal, banks], banks holding the list built so far as Python values.
RECURSIVE ScanBanks(_, _)
ScanBanks(arg, k) ==
    IF k = 0 THEN [fatal |-> NoFatal, banks |-> <<>>]
    ELSE LET prev == ScanBanks(arg, k - 1)
             bank == arg[k]
         IN IF prev.fatal # NoFatal THEN prev
            ELSE IF ~isxdigit(bank)
                THEN [fatal |-> [text |-> "bank not hex digit", args |-> <<bank>>],
                      banks |-> prev.banks]
            ELSE IF PyIn(PyStr(bank), prev.banks)
                THEN [fatal |-> [text |-> "bank duplicated", args |-> <<bank>>],
                      banks |-> prev.banks]
            ELSE [fatal |-> NoFatal, banks |-> Append(prev.banks, PyInt(HexValue(bank)))]

handle_options(arg) ==
    LET r == ScanBanks(arg, Len(arg))
    IN [fatal |-> r.fatal, banks |-> [k \in 1..Len(r.banks) |-> r.banks[k].int]]

\* ---------------------------------------------------------------- state
VARIABLES pc, banksArg, banks, input_data, streams, perm, best_num_roms,
          best_order, mat_pos, rom_size, roms, save_pos, stream_locations,
          rom_files, toc_file, fatal_msg

vars == <<pc, banksArg, banks, input_data, streams, perm, best_num_roms,
          best_order, mat_pos, rom_size, roms, save_pos, stream_locations,
          rom_files, toc_file, fatal_msg>>

\* ---------------------------------------------------------------- inputs
\* The characters a --banks argument is made of; "g" is no hex digit.
BankChars == {"4", "5", "g"}

BankArgs == UNION {[1..n -> BankChars] : n \in 0..MaxBankLen}

\* Length fields of files that reach the search.
\*   two banks, but three in the order of the file
LayoutMixed == <<9996, 9996, 5996, 5996, 0, 0, 0, 0>>
\*   the first two streams fill a bank to the last byte
LayoutExact == <<16376, 0, 0, 0, 0, 0, 0, 0>>
\* Length fields of files that do not.
LayoutSmall == <<0, 0, 0, 0, 0, 0, 0, 0>>
LayoutOversize == <<0, 0, 16381, 0, 0, 20000, 0, 0>>
LayoutOneOver == <<0, 0, 0, 16381, 0, 0, 0, 0>>

SearchedFiles == {MakeFile(GoodHeader, ns, FullLen(ns)) : ns \in {LayoutMixed, LayoutExact}}

\* Files that are rejected: a bad header, a stream longer than a bank, a file
\* that ends early (by up to MaxCut bytes, or right after the header).
MaxCut == 3

RejectedFiles ==
    {MakeFile(h, LayoutSmall, FullLen(LayoutSmall)) : h \in {BadMagicHeader, HuffmanHeader}}
    \cup {MakeFile(GoodHeader, LayoutSmall, len) : len \in 0..FirstStart}
    \cup {MakeFile(GoodHeader, LayoutOversize, FullLen(LayoutOversize) - cut) : cut \in 0..MaxCut}
    \cup {MakeFile(GoodHeader, LayoutOneOver, FullLen(LayoutOneOver))}

Files == SearchedFiles \cup RejectedFiles

Init ==
    /\ pc = "handle_options"
    /\ banksArg \in BankArgs
    /\ banks = <<>>
    /\ input_data \in Files
    /\ streams = <<>>
    /\ perm = <<>>
    /\ best_num_roms = InitBestNumRoms
    /\ best_order = <<>>
    /\ mat_pos = 0
    /\ rom_size = 0
    /\ roms = <<>>
    /\ save_pos = 0
    /\ stream_locations = <<>>
    /\ rom_files = <<>>
    /\ toc_file = <<>>
    /\ fatal_msg = NoFatal

\* The test off by one: a stream one byte too long is let through.
TooLargeOffByOne(stream) == DataLen(stream.data) > Capacity + 1

\* if len(stream.data)>16384
TooLarge(stream) == DataLen(stream.data) > Capacity

\* The test off by one: one bank too few is let through.
TooFewBanksOffByOne(rs, bs) == Len(rs) > Len(bs) + 1

\* if len(roms)>len(options.banks)
TooFewBanks(rs, bs) == Len(rs) > Len(bs)

Fatal(msg) == pc' = "fatal" /\ fatal_msg' = msg

\* main: handle_options(options)
HandleOptions ==
    /\ pc = "handle_options"
    /\ LET r == handle_options(banksArg)
       IN IF r.fatal # NoFatal
          THEN Fatal(r.fatal) /\ UNCHANGED banks
          ELSE pc' = "ensure_ok" /\ banks' = r.banks /\ UNCHANGED fatal_msg
    /\ UNCHANGED <<banksArg, input_data, streams, perm, best_num_roms, best_order,
                   mat_pos, rom_size, roms, save_pos, stream_locations, rom_files,
                   toc_file>>

\* main: input_data=load_file(...); ensure_ok(input_data)
EnsureOk ==
    /\ pc = "ensure_ok"
    /\ IF ensure_ok(input_data) # "ok"
       THEN Fatal([text |-> ensure_ok(input_data), args |-> <<>>])
       ELSE pc' = "find_vgc_streams" /\ UNCHANGED fatal_msg
    /\ UNCHANGED <<banksArg, banks, input_data, streams, perm, best_num_roms,
                   best_order, mat_pos, rom_size, roms, save_pos, stream_locations,
                   rom_files, toc_file>>

\* main: streams=find_vgc_streams(input_data); an IndexError ends the run.
FindVgcStreams ==
    /\ pc = "find_vgc_streams"
    /\ IF ScanStarts(input_data, NumStreams).ok
       THEN pc' = "size_check" /\ streams' = find_vgc_streams(input_data)
       ELSE pc' = "IndexError" /\ UNCHANGED streams
    /\ UNCHANGED <<banksArg, banks, input_data, perm, best_num_roms, best_order,
                   mat_pos, rom_size, roms, save_pos, stream_locations, rom_files,
                   toc_file, fatal_msg>>

\* main: the loop that rejects a stream longer than a bank, then the call of
\* find_order, whose locals are set up.
SizeCheck ==
    /\ pc = "size_check"
    /\ LET big == {i \in 1..NumStreams : TooLarge(streams[i])}
       IN IF big # {}
          THEN LET s == streams[CHOOSE i \in big : \A j \in big : i <= j]
               IN /\ Fatal([text |-> "data can never fit in ROM",
                            args |-> <<s.index, DataLen(s.data)>>])
                  /\ UNCHANGED <<perm, best_num_roms, best_order>>
          ELSE /\ pc' = "search"
               /\ perm' = FirstPerm
               /\ best_num_roms' = InitBestNumRoms
               /\ best_order' = <<>>
               /\ UNCHANGED fatal_msg
    /\ UNCHANGED <<banksArg, banks, input_data, streams, mat_pos, rom_size, roms,
                   save_pos, stream_locations, rom_files, toc_file>>

\* find_order: one round of the loop over the permutations; after the last
\* one the locals of the second loop are set up.
SearchStep ==
    /\ pc = "search"
    /\ perm # <<>>
    /\ LET order == OrderOf(streams, perm)
           num_roms == CountRoms(order)
       IN IF Better(num_roms, best_num_roms)
          THEN best_num_roms' = num_roms /\ best_order' = order
          ELSE UNCHANGED <<best_num_roms, best_order>>
    /\ perm' = NextPerm(perm)
    /\ IF NextPerm(perm) = <<>>
       THEN pc' = "materialize" /\ roms' = <<>> /\ rom_size' = InitRomSize /\ mat_pos' = 1
       ELSE UNCHANGED <<pc, roms, rom_size, mat_pos>>
    /\ UNCHANGED <<banksArg, banks, input_data, streams, save_pos, stream_locations,
                   rom_files, toc_file, fatal_msg>>

\* find_order: one round of the loop that fills the ROMs from best_order.  rom
\* is the list appended to roms last; it is unbound while roms is empty, and
\* best_order is None when no ordering was kept.
MaterializeStep ==
    /\ pc = "materialize"
    /\ IF best_order = <<>>
       THEN pc' = "TypeError" /\ UNCHANGED <<roms, rom_size, mat_pos>>
       ELSE LET stream == best_order[mat_pos]
                fresh == RomOverflows(rom_size, stream)
            IN IF ~fresh /\ roms = <<>>
               THEN pc' = "UnboundLocalError" /\ UNCHANGED <<roms, rom_size, mat_pos>>
               ELSE /\ roms' = IF fresh THEN Append(roms, <<stream>>)
                               ELSE [roms EXCEPT ![Len(roms)] = Append(@, stream)]
                    /\ rom_size' = (IF fresh THEN 0 ELSE rom_size) + DataLen(stream.data)
                    /\ mat_pos' = mat_pos + 1
                    /\ pc' = IF mat_pos = Len(best_order) THEN "bank_check"
                             ELSE "materialize"
    /\ UNCHANGED <<banksArg, banks, input_data, streams, perm, best_num_roms,
                   best_order, save_pos, stream_locations, rom_files, toc_file,
                   fatal_msg>>

NoneLocation == [bank |-> -1, addr |-> -1]

\* main: too few banks is fatal; otherwise save_files starts.
BankCheck ==
    /\ pc = "bank_check"
    /\ IF TooFewBanks(roms, banks)
       THEN /\ Fatal([text |-> "data requires ROM(s) - banks available",
                      args |-> <<Len(roms), Len(banks)>>])
            /\ UNCHANGED <<save_pos, stream_locations>>
       ELSE /\ pc' = "save_files"
            /\ save_pos' = 1
            /\ stream_locations' = [i \in 1..NumStreams |-> NoneLocation]
            /\ UNCHANGED fatal_msg
    /\ UNCHANGED <<banksArg, banks, input_data, streams, perm, best_num_roms,
                   best_order, mat_pos, rom_size, roms, rom_files, toc_file>>

\* '%x'%bank
FormatHex(b) ==
    IF b < 16 THEN SubSeq(<<"0", "1", "2", "3", "4", "5", "6", "7", "8", "9",
                            "a", "b", "c", "d", "e", "f">>, b + 1, b + 1)
    ELSE <<"?">>

\* The address with addr+=len(stream.data) replaced by an assignment from the
\* base address.
AddrAtNotAccumulated(ss, k) ==
    IF k = 1 THEN BaseAddr ELSE BaseAddr + DataLen(ss[k - 1].data)

\* The address of the k-th stream of a ROM: addr after k-1 rounds of the inner
\* loop of save_files.
RECURSIVE AddrAt(_, _)
AddrAt(ss, k) ==
    IF k = 1 THEN BaseAddr ELSE AddrAt(ss, k - 1) + DataLen(ss[k - 1].data)

\* save_files: one round of the loop over the ROMs: the streams of ROM i get
\* their locations and the ROM's file is written.
SaveRom ==
    /\ pc = "save_files"
    /\ save_pos <= Len(roms)
    /\ LET ss == roms[save_pos]
           bank == banks[save_pos]
           at(ix) == CHOOSE k \in 1..Len(ss) :
                        /\ ss[k].index = ix
                        /\ \A m \in (k + 1)..Len(ss) : ss[m].index # ix
       IN /\ stream_locations' =
                [i \in 1..NumStreams |->
                    IF \E k \in 1..Len(ss) : ss[k].index = i - 1
                    THEN [bank |-> bank, addr |-> AddrAt(ss, at(i - 1))]
                    ELSE stream_locations[i]]
          /\ rom_files' = Append(rom_files,
                                 [path |-> FormatHex(bank),
                                  xs |-> [k \in 1..Len(ss) |-> ss[k].data]])
    /\ save_pos' = save_pos + 1
    /\ UNCHANGED <<pc, banksArg, banks, input_data, streams, perm, best_num_roms,
                   best_order, mat_pos, rom_size, roms, toc_file, fatal_msg>>

\* The entry with the address high byte first.
TocEntryHighFirst(loc) == <<loc.bank, (loc.addr \div 256) % 256, loc.addr % 256>>

\* The three bytes a location adds to the table of contents.
TocEntry(loc) == <<loc.bank, loc.addr % 256, (loc.addr \div 256) % 256>>

RECURSIVE TocFrom(_, _)
TocFrom(locs, k) ==
    IF k = 0 THEN <<86, 71, 67, 32, 0, 0, 0>>
    ELSE TocFrom(locs, k - 1) \o TocEntry(locs[k])

\* save_files: after the loop the table of contents is built and written.
SaveToc ==
    /\ pc = "save_files"
    /\ save_pos > Len(roms)
    /\ IF \E i \in 1..NumStreams : stream_locations[i] = NoneLocation
       THEN pc' = "AttributeError" /\ UNCHANGED toc_file
       ELSE pc' = "done" /\ toc_file' = <<TocFrom(stream_locations, NumStreams)>>
    /\ UNCHANGED <<banksArg, banks, input_data, streams, perm, best_num_roms,
                   best_order, mat_pos, rom_size, roms, save_pos, stream_locations,
                   rom_files, fatal_msg>>

Next ==
    \/ HandleOptions
    \/ EnsureOk
    \/ FindVgcStreams
    \/ SizeCheck
    \/ SearchStep
    \/ MaterializeStep
    \/ BankCheck
    \/ SaveRom
    \/ SaveToc

Spec == Init /\ [][Next]_vars

\* ================================================================ properties
NoFileWritten == rom_files = <<>> /\ toc_file = <<>>

\* find_order has returned its list of ROMs.
OrderFound == pc = "bank_check"

StreamLens == [i \in 1..NumStreams |-> DataLen(streams[i].data)]

MinOf(S) == CHOOSE x \in S : \A y \in S : x <= y

RECURSIVE SumLens(_, _)
SumLens(ss, k) == IF k = 0 THEN 0 ELSE SumLens(ss, k - 1) + DataLen(ss[k].data)

RomBytes(ss) == SumLens(ss, Len(ss))

\* The fewest banks any ordering of the streams at the positions in rest ends
\* with, when the streams placed before them left a bank holding size bytes
\* and n banks open or closed: a stream goes in the current bank if it fits,
\* otherwise the bank is closed and a new one opened.
RECURSIVE FewestOver(_, _, _)
FewestOver(rest, size, n) ==
    IF rest = {} THEN n
    ELSE MinOf({LET len == StreamLens[i]
                IN IF size + len <= Capacity
                   THEN FewestOver(rest \ {i}, size + len, n)
                   ELSE FewestOver(rest \ {i}, len, n + 1) : i \in rest})

FewestOverPermutations == FewestOver(1..NumStreams, 0, 1)

\* C1: once every stream has passed the size check, the number of banks
\* find_order returns is the least bank count that sequential packing of any
\* of the permutations of the 8 streams gives.
MinimalOverPermutations ==
    OrderFound => Len(roms) = FewestOverPermutations

\* The file's own order needs three banks and find_order returns two.
MinimalOverPermutationsWitness ==
    /\ OrderFound
    /\ Len(roms) = 2
    /\ CountRoms(streams) = 3

\* C2: no bank ever holds more than Capacity bytes: not while the second loop
\* of find_order fills it (where rom_size is the number of bytes in the bank
\* being filled), and not in the list find_order returns.
CapacityInvariant ==
    /\ \A r \in 1..Len(roms) : RomBytes(roms[r]) <= Capacity
    /\ roms # <<>> => rom_size = RomBytes(roms[Len(roms)]) /\ rom_size <= Capacity

\* A bank is filled to its last byte by two streams while the banks are built.
CapacityInvariantWitness ==
    /\ pc = "materialize"
    /\ roms # <<>>
    /\ Len(roms[Len(roms)]) = 2
    /\ RomBytes(roms[Len(roms)]) = Capacity

\* The location save_files has given the stream with index ix.
LocationOf(ix) == stream_locations[ix + 1]

\* C3: in every bank save_files has laid out, the first stream is at 0x8000,
\* every later stream is at the address of the stream before it plus that
\* stream's length, the addresses strictly increase, and no two streams of the
\* bank overlap.
AddressCorrectness ==
    pc \in {"save_files", "done"} =>
        \A r \in 1..(save_pos - 1) :
            LET ss == roms[r]
                addr(k) == LocationOf(ss[k].index).addr
                end(k) == addr(k) + DataLen(ss[k].data)
            IN /\ addr(1) = BaseAddr
               /\ \A k \in 2..Len(ss) : addr(k) = end(k - 1) /\ addr(k) > addr(k - 1)
               /\ \A j, k \in 1..Len(ss) : j # k => end(j) <= addr(k) \/ end(k) <= addr(j)

\* A bank of six streams has been laid out.
AddressCorrectnessWitness ==
    /\ pc = "save_files"
    /\ save_pos = 3
    /\ Len(roms[2]) = 6

InsufficientBanksText == "data requires ROM(s) - banks available"

\* C4: when find_order has returned more banks than there are bank
\* identifiers, the run is at or on its way into the fatal error, and a run
\* that died never wrote a file.
InsufficientBanks ==
    /\ mat_pos > NumStreams /\ Len(roms) > Len(banks) =>
          /\ pc \in {"bank_check", "fatal"}
          /\ pc = "fatal" => fatal_msg = [text |-> InsufficientBanksText,
                                         args |-> <<Len(roms), Len(banks)>>]
          /\ NoFileWritten
    /\ pc = "fatal" => NoFileWritten

\* Two banks are needed and one identifier was given.
InsufficientBanksWitness ==
    /\ pc = "fatal"
    /\ fatal_msg.text = InsufficientBanksText
    /\ Len(roms) = 2
    /\ Len(banks) = 1

Oversize == {i \in 1..Len(streams) : DataLen(streams[i].data) > Capacity}

\* C5: once the size check is over, a run with a stream longer than Capacity
\* is dead with the message that names the first such stream and its length,
\* the search never started and no file was written; so the search runs only
\* on streams that all fit a bank.
OversizeRejection ==
    /\ pc # "size_check" /\ Oversize # {} =>
          /\ pc = "fatal"
          /\ fatal_msg = [text |-> "data can never fit in ROM",
                          args |-> <<MinOf(Oversize) - 1,
                                     DataLen(streams[MinOf(Oversize)].data)>>]
          /\ perm = <<>> /\ best_order = <<>> /\ roms = <<>>
          /\ NoFileWritten
    /\ pc \in {"search", "materialize", "bank_check", "save_files", "done"} =>
          Len(streams) = NumStreams /\ Oversize = {}

\* Streams 2 and 5 are too long; the run died naming stream 2.
OversizeRejectionWitness ==
    /\ pc = "fatal"
    /\ Oversize = {3, 6}
    /\ fatal_msg.args[1] = 2

HasDuplicate(xs) == \E j, k \in 1..Len(xs) : j # k /\ xs[j] = xs[k]

\* C6: a --banks argument that names a bank twice is rejected by
\* handle_options with a fatal error before the container is read; so while
\* the run goes on the bank identifiers are pairwise distinct and no two ROMs
\* are written to the same file.
DuplicateBanksRejected ==
    /\ pc # "handle_options" /\ HasDuplicate(banksArg) =>
          pc = "fatal" /\ fatal_msg.text \in {"bank duplicated", "bank not hex digit"}
    /\ pc \notin {"handle_options", "fatal"} => ~HasDuplicate(banks)
    /\ ~HasDuplicate([k \in 1..Len(rom_files) |-> rom_files[k].path])

\* The value of the length field that a well-formed file holds at offset start.
FieldAt(d, start) == Byte(d, start) + 256 * Byte(d, start + 1)

\* C7: for every file that passes ensure_ok, find_vgc_streams returns 8
\* streams, the first starting at offset 7, each the n+4 bytes from its start,
\* n being the little-endian 16-bit value there, each starting where the one
\* before it ends, and nothing is read outside the file.
ContainerFraming ==
    pc \notin {"handle_options", "ensure_ok", "find_vgc_streams", "fatal"}
    \/ (pc = "fatal" /\ fatal_msg.text = "data can never fit in ROM") =>
        /\ pc # "IndexError"
        /\ Len(streams) = NumStreams
        /\ streams[1].data.lo = FirstStart
        /\ \A i \in 1..NumStreams :
              /\ streams[i].index = i - 1
              /\ streams[i].data.hi <= input_data.len
              /\ DataLen(streams[i].data) =
                     FieldAt(input_data, streams[i].data.lo) + LengthExtra
              /\ i < NumStreams => streams[i + 1].data.lo = streams[i].data.hi

\* The ROM that holds the stream with index ix, and the stream's place in it.
RomOf(ix) == CHOOSE r \in 1..Len(roms) : \E k \in 1..Len(roms[r]) : roms[r][k].index = ix

PlaceOf(ix) == CHOOSE k \in 1..Len(roms[RomOf(ix)]) : roms[RomOf(ix)][k].index = ix

\* C8: the table of contents written is 31 bytes: 'V','G','C',0x20,0,0,0 and
\* then, for the stream indices 0 to 7 in that order, the identifier of the
\* bank the stream is in (the k-th identifier for the k-th ROM built) and the
\* stream's address, low byte first; every stream index is in exactly one ROM.
TocDirectory ==
    pc = "done" =>
        /\ Len(toc_file) = 1
        /\ LET toc == toc_file[1]
           IN /\ Len(toc) = 7 + 3 * NumStreams
              /\ SubSeq(toc, 1, 7) = <<86, 71, 67, 32, 0, 0, 0>>
              /\ \A ix \in 0..(NumStreams - 1) :
                    /\ Cardinality({<<r, k>> \in (1..Len(roms)) \X (1..NumStreams) :
                                       k <= Len(roms[r]) /\ roms[r][k].index = ix}) = 1
                    /\ toc[8 + 3 * ix] = banks[RomOf(ix)]
                    /\ toc[9 + 3 * ix] + 256 * toc[10 + 3 * ix] =
                           BaseAddr + SumLens(roms[RomOf(ix)], PlaceOf(ix) - 1)
                    /\ toc[9 + 3 * ix] \in 0..255
                    /\ toc[10 + 3 * ix] \in 0..255

\* Two ROMs in banks 4 and 5, packed in an order that is not the file's: stream
\* 2 is in the first ROM and stream 1 in the second.
TocDirectoryWitness ==
    /\ pc = "done"
    /\ banks = <<4, 5>>
    /\ Len(roms) = 2
    /\ RomOf(2) = 1
    /\ RomOf(1) = 2

\* The place a stream has after size bytes in the current bank, n banks so far.
Placed(i, size, n) ==
    IF size + StreamLens[i] <= Capacity
    THEN [size |-> size + StreamLens[i], n |-> n]
    ELSE [size |-> StreamLens[i], n |-> n + 1]

\* The first, in lexicographic order of positions, of the orderings of rest
\* that end with target banks after size bytes in the current bank and n banks.
RECURSIVE EarliestOver(_, _, _, _)
EarliestOver(rest, size, n, target) ==
    IF rest = {} THEN <<>>
    ELSE LET first == MinOf({i \in rest :
                                FewestOver(rest \ {i}, Placed(i, size, n).size,
                                           Placed(i, size, n).n) = target})
         IN <<first>> \o EarliestOver(rest \ {first}, Placed(first, size, n).size,
                                      Placed(first, size, n).n, target)

EarliestMinimalOrder ==
    OrderOf(streams, EarliestOver(1..NumStreams, 0, 1, FewestOverPermutations))

\* C9: the ordering kept changes only in a round of the search whose
\* permutation needs strictly fewer banks than the best so far, and it then
\* becomes that permutation; so when the search is over the ordering kept is the
\* first permutation, in lexicographic order of positions in the file, that
\* needs the fewest banks.
TieBreak ==
    /\ [](pc = "materialize" /\ mat_pos = 1 => best_order = EarliestMinimalOrder)
    /\ [][best_order' # best_order =>
             /\ pc = "search"
             /\ best_order' = OrderOf(streams, perm)
             /\ CountRoms(best_order') < best_num_roms
             /\ best_num_roms' = CountRoms(best_order')]_vars

\* The search is over, the file's own order was replaced, and a later
\* permutation (the one kept with its last two streams swapped) ties with it.
TieBreakWitness ==
    /\ pc = "materialize"
    /\ mat_pos = 1
    /\ best_order # streams
    /\ best_order[NumStreams - 1].index < best_order[NumStreams].index
    /\ CountRoms([k \in 1..NumStreams |->
                     IF k = NumStreams - 1 THEN best_order[NumStreams]
                     ELSE IF k = NumStreams THEN best_order[NumStreams - 1]
                     ELSE best_order[k]]) = best_num_roms

RECURSIVE SumOver(_)
SumOver(S) == IF S = {} THEN 0 ELSE LET i == MinOf(S) IN StreamLens[i] + SumOver(S \ {i})

\* The fewest groups, each of at most Capacity bytes, the streams at the
\* positions in S can be split into.
RECURSIVE FewestGroups(_)
FewestGroups(S) ==
    IF S = {} THEN 0
    ELSE 1 + MinOf({FewestGroups(S \ T) :
                       T \in {T \in SUBSET S : MinOf(S) \in T /\ SumOver(T) <= Capacity}})

\* C10: no split of the 8 streams into groups of at most Capacity bytes has
\* fewer groups than find_order returns banks; the list of banks built has as
\* many banks as the count kept by the search, and every stream is in exactly
\* one bank; the second loop never fails for want of an ordering or of a bank.
OptimalAndConsistent ==
    /\ pc \notin {"TypeError", "UnboundLocalError"}
    /\ OrderFound =>
          /\ Len(roms) = FewestGroups(1..NumStreams)
          /\ Len(roms) = best_num_roms
          /\ \A i \in 1..NumStreams :
                Cardinality({<<r, k>> \in (1..Len(roms)) \X (1..NumStreams) :
                                k <= Len(roms[r]) /\ roms[r][k] = streams[i]}) = 1

\* Two banks are returned, the first full to the last byte.
OptimalAndConsistentWitness ==
    /\ OrderFound
    /\ best_num_roms = 2
    /\ RomBytes(roms[1]) = Capacity
    /\ Len(roms[2]) = NumStreams - 2
====
